---------------------------- MODULE Spec2Model ----------------------------
(***************************************************************************)
(* Model of api/timer.js: the serverless handler that resolves a countdown *)
(* end instant from the query parameters and renders the remaining time as *)
(* a PNG.  One invocation of module.exports is one behaviour: Init is the  *)
(* moment the handler is entered, every action is one block of the handler.*)
(*                                                                         *)
(* Conventions                                                             *)
(*  - req.query is the function q from parameter names to option sets:     *)
(*    {} is JavaScript's undefined, {v} is the string v.                   *)
(*  - Date strings, zone names and flags are atomic strings; the strings   *)
(*    the handler slices, splits, pads or hands to parseInt are sequences  *)
(*    of one-character strings.                                            *)
(*  - Instants and durations are counted in ticks of 500 ms from           *)
(*    2025-01-01T00:00:00Z, so that month- and year-long durations fit     *)
(*    TLC's integers; every unit constant of dayjs is a whole number of    *)
(*    ticks.                                                               *)
(*  - Widths are counted in twentieths of a pixel, which makes the 10% and *)
(*    25% margins of the font-fit loop whole numbers.                      *)
(***************************************************************************)
EXTENDS Integers, Sequences, FiniteSets, TLC

VARIABLES
    q,          \* req.query
    clock,      \* the wall clock when the handler is entered (ticks)
    adv,        \* the backend's text metrics: advance per character, in 1/20 em
    pc,         \* position in the handler
    opt,        \* the rendering options of lines 65-79
    mode,       \* which branch of lines 83-108 computed endUtc
    endUtc,     \* [valid, t]: the dayjs object endUtc
    now,        \* dayjs.utc() of line 115
    ms,         \* remaining time (ticks)
    groups,     \* the digit groups of line 144
    parts,      \* the tokens of lines 162-166
    layout,     \* W, H, topPad, bottomPad, contentH, maxWidth
    fontSize,   \* the fitted font size
    drawn,      \* what was painted: boxes, glyphs, label texts
    res         \* the response: status, headers, body, number of send/end calls

vars == <<q, clock, adv, pc, opt, mode, endUtc, now, ms, groups, parts,
          layout, fontSize, drawn, res>>

----------------------------------------------------------------------------
(* Bounds of the model *)

\* How many ticks the clock may advance between entering the handler and
\* line 115.
MaxSkew == 1

\* Length of the longest expiredText the requests carry beyond the 32
\* characters the handler keeps.
MaxExtraChars == 1

----------------------------------------------------------------------------
(* Time units (dayjs/constant.js and dayjs/plugin/duration), in ticks *)

MILLISECONDS_A_SECOND == 2
MILLISECONDS_A_MINUTE == 60 * MILLISECONDS_A_SECOND
MILLISECONDS_A_HOUR   == 60 * MILLISECONDS_A_MINUTE
MILLISECONDS_A_DAY    == 24 * MILLISECONDS_A_HOUR
MILLISECONDS_A_YEAR   == 365 * MILLISECONDS_A_DAY
MILLISECONDS_A_MONTH  == MILLISECONDS_A_YEAR \div 12

Sec  == MILLISECONDS_A_SECOND
Mnt  == MILLISECONDS_A_MINUTE
Hour == MILLISECONDS_A_HOUR
Day  == MILLISECONDS_A_DAY

----------------------------------------------------------------------------
(* Strings *)

Min(a, b) == IF a < b THEN a ELSE b
Max(a, b) == IF a > b THEN a ELSE b

Digits == <<"0", "1", "2", "3", "4", "5", "6", "7", "8", "9">>

IsDigit(c) == \E i \in 1..10 : Digits[i] = c

DigitVal(c) == (CHOOSE i \in 1..10 : Digits[i] = c) - 1

\* String.prototype.slice(0, n)
Slice(s, n) == SubSeq(s, 1, Min(n, Len(s)))

\* The first index >= p at which d occurs in s, or 0.
IndexOfFrom(s, d, p) ==
    LET hits == {i \in p..(Len(s) - Len(d) + 1) : SubSeq(s, i, i + Len(d) - 1) = d}
    IN  IF hits = {} THEN 0 ELSE CHOOSE i \in hits : \A j \in hits : i <= j

RECURSIVE SplitFrom(_, _, _)
SplitFrom(s, d, p) ==
    LET i == IndexOfFrom(s, d, p)
    IN  IF i = 0 THEN <<SubSeq(s, p, Len(s))>>
        ELSE <<SubSeq(s, p, i - 1)>> \o SplitFrom(s, d, i + Len(d))

\* String.prototype.split with a non-empty separator.
Split(s, d) == SplitFrom(s, d, 1)

RECURSIVE DigitsOf(_)
DigitsOf(n) == IF n < 10 THEN <<Digits[n + 1]>>
               ELSE DigitsOf(n \div 10) \o <<Digits[(n % 10) + 1]>>

RECURSIVE Zeros(_)
Zeros(n) == IF n <= 0 THEN <<>> ELSE <<"0">> \o Zeros(n - 1)

\* String(n).padStart(k, '0') for n >= 0
PadStart(n, k) == LET s == DigitsOf(n) IN Zeros(k - Len(s)) \o s

RECURSIVE Rep(_, _)
Rep(c, n) == IF n <= 0 THEN <<>> ELSE <<c>> \o Rep(c, n - 1)

RECURSIVE Concat(_)
Concat(ss) == IF ss = <<>> THEN <<>> ELSE Head(ss) \o Concat(Tail(ss))

----------------------------------------------------------------------------
(* clamp and toInt, lines 54-58 *)

clamp(n, lo, hi) == Min(Max(n, lo), hi)

RECURSIVE DigitRun(_, _, _)
\* The value of the digits of s from index i on, up to the first non-digit.
DigitRun(s, i, acc) ==
    IF i > Len(s) \/ ~IsDigit(s[i]) THEN acc
    ELSE DigitRun(s, i + 1, 10 * acc + DigitVal(s[i]))

RECURSIVE SkipSpace(_, _)
SkipSpace(s, i) == IF i <= Len(s) /\ s[i] = " " THEN SkipSpace(s, i + 1) ELSE i

\* parseInt(s, 10): leading white space, an optional sign, then the longest
\* run of digits; NaN when there is none.
ParseInt(s) ==
    LET i0  == SkipSpace(s, 1)
        neg == i0 <= Len(s) /\ s[i0] = "-"
        i1  == IF i0 <= Len(s) /\ s[i0] \in {"-", "+"} THEN i0 + 1 ELSE i0
    IN  IF i1 > Len(s) \/ ~IsDigit(s[i1]) THEN [nan |-> TRUE, n |-> 0]
        ELSE [nan |-> FALSE,
              n   |-> IF neg THEN 0 - DigitRun(s, i1, 0) ELSE DigitRun(s, i1, 0)]

\* toInt(v, d) of an option set v
toInt(v, d) ==
    IF v = {} THEN d
    ELSE LET p == ParseInt(CHOOSE s \in v : TRUE) IN IF p.nan THEN d ELSE p.n

----------------------------------------------------------------------------
(* req.query *)

AtomKeys == {"end", "end_local", "tz", "start", "style", "show_labels",
             "debug", "overlay", "bg"}
SeqKeys  == {"ttl_days", "ttl_hours", "ttl_minutes", "ttl_seconds",
             "w", "h", "scale", "padDays", "delim", "expiredText"}
Keys     == AtomKeys \cup SeqKeys

\* A key repeated in the query string (?bg=a&bg=b) arrives as an array.
ArrayValue == "[array]"

Val(k) == CHOOSE v \in q[k] : TRUE

\* Whether q.k is truthy: present and not the empty string.
Truthy(k) ==
    IF k \in SeqKeys THEN q[k] \notin {{}, {<<>>}} ELSE q[k] \notin {{}, {""}}

\* Whether the request carries the key at all.
Supplied(k) == q[k] # {}

\* q.k || dflt
OrDefault(k, dflt) == IF Truthy(k) THEN Val(k) ELSE dflt

----------------------------------------------------------------------------
(* Date strings.  dayjs parses them; the model tabulates the instants of   *)
(* the strings the requests carry and answers "invalid" for any other.     *)

Invalid == [valid |-> FALSE, t |-> 0]
At(t)   == [valid |-> TRUE, t |-> t]

\* dayjs.utc(s), lines 85 and 100
DayjsUtc(s) ==
    CASE s = "2025-01-01T00:00:00Z" -> At(0)
      [] s = "2025-01-01T05:00:00Z" -> At(5 * Hour)
      [] s = "2025-01-02T12:00:00Z" -> At(36 * Hour)
      [] s = "2025-08-31T19:00:00Z" -> At(243 * Day - 5 * Hour)
      [] s = "2027-01-01T00:00:00Z" -> At(730 * Day)
      [] OTHER -> Invalid

\* raw.includes('T') ? raw : raw.replace(' ', 'T'), line 89
WithT(raw) ==
    CASE raw = "2025-09-01 00:00" -> "2025-09-01T00:00"
      [] OTHER -> raw

\* dayjs(withT, ['YYYY-MM-DDTHH:mm', 'YYYY-MM-DD HH:mm'], true), line 90:
\* the wall-clock reading of a string in one of the two layouts.
DayjsStrict(withT) ==
    CASE withT = "2025-09-01T00:00" -> At(243 * Day)
      [] OTHER -> Invalid

\* dayjs(withT), line 93: the permissive parse also reads a bare date.
DayjsLoose(withT) ==
    CASE withT = "2025-09-01T00:00" -> At(243 * Day)
      [] withT = "2025-09-02" -> At(244 * Day)
      [] OTHER -> Invalid

\* The zones Intl knows, with their offset from UTC.
KnownZones == {"Asia/Karachi", "UTC"}
ZoneOffset(z) == IF z = "Asia/Karachi" THEN 5 * Hour ELSE 0

\* parsed.tz(zone, true) throws a RangeError for a zone Intl does not know,
\* unless parsed is invalid (an invalid Date is never formatted).
TzThrows(parsed, z) == parsed.valid /\ z \notin KnownZones

\* parsed.tz(zone, true).utc(), lines 97-98: the wall-clock reading taken as
\* local time in the zone.
TzKeepLocalUtc(parsed, z) ==
    IF parsed.valid THEN At(parsed.t - ZoneOffset(z)) ELSE Invalid

\* d.add(n, unit) on a dayjs object
DayjsAdd(d, n, unit) == IF d.valid THEN At(d.t + n * unit) ELSE Invalid

----------------------------------------------------------------------------
(* Rendering options, lines 65-79 *)

ToLowerCase(s) ==
    CASE s = "BOXED" -> "boxed"
      [] s = "False" -> "false"
      [] OTHER -> s

\* s.replace('#', '')
StripHash(s) == IF s = "#102030" THEN "102030" ELSE s

Options ==
    [width       |-> clamp(toInt(q["w"], 600), 200, 1600),
     height      |-> clamp(toInt(q["h"], 140), 80, 400),
     scale       |-> clamp(toInt(q["scale"], 1), 1, 2),
     bg          |-> StripHash(OrDefault("bg", "0B0B0B")),
     style       |-> ToLowerCase(OrDefault("style", "plain")),
     showLabels  |-> ToLowerCase(OrDefault("show_labels", "true")) # "false",
     delim       |-> Slice(OrDefault("delim", <<":">>), 3),
     expiredText |-> Slice(OrDefault("expiredText",
                        <<"0", "0", ":", "0", "0", ":", "0", "0", ":", "0", "0">>), 32),
     padDays     |-> clamp(toInt(q["padDays"], 2), 1, 4)]

NoOptions ==
    [width |-> 0, height |-> 0, scale |-> 0, bg |-> "", style |-> "",
     showLabels |-> FALSE, delim |-> <<>>, expiredText |-> <<>>, padDays |-> 0]

----------------------------------------------------------------------------
(* The response object *)

NoResponse == [sends |-> 0, status |-> 0, body |-> "", headers |-> {}]

SetHeader(r, name, value) ==
    [r EXCEPT !.headers = {h \in @ : h[1] # name} \cup {<<name, value>>}]

\* res.status(code).send(body) and res.status(code).end(body)
Send(r, code, body) ==
    [r EXCEPT !.sends = @ + 1, !.status = code, !.body = body]

CacheHeaders ==
    {<<"Cache-Control", "no-cache, no-store, must-revalidate, private">>,
     <<"Pragma", "no-cache">>, <<"Expires", "0">>}

----------------------------------------------------------------------------
(* Time resolution, lines 82-108 *)

\* Variant of AnyTtl: a ttl field counts only when its number is not 0.
AnyTtlNonZero ==
    \/ toInt(q["ttl_days"], 0) # 0 \/ toInt(q["ttl_hours"], 0) # 0
    \/ toInt(q["ttl_minutes"], 0) # 0 \/ toInt(q["ttl_seconds"], 0) # 0

AnyTtl == Truthy("ttl_days") \/ Truthy("ttl_hours")
          \/ Truthy("ttl_minutes") \/ Truthy("ttl_seconds")

\* Variant of SelectMode: the end_local branch is tried before the end branch.
SelectModeLocalFirst ==
    IF Truthy("end_local") /\ Truthy("tz") THEN "local"
    ELSE IF Truthy("end") THEN "end"
    ELSE IF Truthy("start") /\ AnyTtl THEN "startTtl"
    ELSE "default"

\* The branch of the if-else chain of lines 83-108 that runs.
SelectMode ==
    IF Truthy("end") THEN "end"
    ELSE IF Truthy("end_local") /\ Truthy("tz") THEN "local"
    ELSE IF Truthy("start") /\ AnyTtl THEN "startTtl"
    ELSE "default"

\* parsed of lines 88-94
ParsedLocal ==
    LET withT  == WithT(Val("end_local"))
        strict == DayjsStrict(withT)
    IN  IF strict.valid THEN strict ELSE DayjsLoose(withT)

\* d of lines 100-104
StartPlusTtl ==
    DayjsAdd(DayjsAdd(DayjsAdd(DayjsAdd(DayjsUtc(Val("start")),
        toInt(q["ttl_days"], 0), Day),
        toInt(q["ttl_hours"], 0), Hour),
        toInt(q["ttl_minutes"], 0), Mnt),
        toInt(q["ttl_seconds"], 0), Sec)

EndOf(m) ==
    CASE m = "end"      -> DayjsUtc(Val("end"))
      [] m = "local"    -> TzKeepLocalUtc(ParsedLocal, Val("tz"))
      [] m = "startTtl" -> StartPlusTtl
      [] OTHER          -> At(clock + 24 * Hour)

----------------------------------------------------------------------------
(* Remaining time, lines 115-117 *)

\* Variant of ClampMs: the clamp of line 117 is missing.
ClampMsMissing(diff) == diff

\* if (ms < 0) ms = 0
ClampMs(diff) == IF diff < 0 THEN 0 ELSE diff

----------------------------------------------------------------------------
(* Digit groups, lines 139-146 *)

\* dayjs.duration(ms) breaks ms down unit by unit, largest first, each unit
\* taking what the larger ones left: years of 365 days, months of a twelfth
\* of a year, then days, hours, minutes, seconds.
DurationRest(n) == ((n % MILLISECONDS_A_YEAR) % MILLISECONDS_A_MONTH) % MILLISECONDS_A_DAY

\* d.hours(), d.minutes(), d.seconds()
DurationHours(n)   == DurationRest(n) \div MILLISECONDS_A_HOUR
DurationMinutes(n) == (DurationRest(n) % MILLISECONDS_A_HOUR) \div MILLISECONDS_A_MINUTE
DurationSeconds(n) == (DurationRest(n) % MILLISECONDS_A_MINUTE) \div MILLISECONDS_A_SECOND

\* Math.floor(d.asDays())
FloorAsDays(n) == n \div MILLISECONDS_A_DAY

\* groups of line 144
Groups(n, o) ==
    IF n = 0 THEN Split(o.expiredText, o.delim)
    ELSE <<PadStart(FloorAsDays(n), o.padDays),
           PadStart(DurationHours(n), 2),
           PadStart(DurationMinutes(n), 2),
           PadStart(DurationSeconds(n), 2)>>

Labels == <<"DAYS", "HOURS", "MINUTES", "SECONDS">>

\* Variant of ShowUnitLabels: the test for remaining time is missing.
ShowUnitLabelsAlways(showLabels, n) == showLabels

\* showUnitLabels of line 146
ShowUnitLabels(showLabels, n) == showLabels /\ n > 0

----------------------------------------------------------------------------
(* Canvas and layout, lines 149-159 and 172 *)

Layout(o, n) ==
    LET W         == o.width * o.scale
        H         == o.height * o.scale
        topPad    == (18 * H) \div 100
        bottomPad == IF ShowUnitLabels(o.showLabels, n)
                     THEN (28 * H) \div 100 ELSE (18 * H) \div 100
    IN  [W |-> W, H |-> H, topPad |-> topPad, bottomPad |-> bottomPad,
         contentH |-> H - topPad - bottomPad]

NoLayout == [W |-> 0, H |-> 0, topPad |-> 0, bottomPad |-> 0, contentH |-> 0]

\* Math.floor(W * 0.92)
MaxWidth(W) == (92 * W) \div 100

\* Math.floor(contentH * 0.9)
UpperSize(contentH) == (9 * contentH) \div 10

\* parts of lines 162-166
Parts(g, delim) ==
    [i \in 1..(2 * Len(g) - 1) |->
        IF i % 2 = 1 THEN [type |-> "num", text |-> g[(i + 1) \div 2]]
        ELSE [type |-> "delim", text |-> delim]]

----------------------------------------------------------------------------
(* Font fit, lines 168-183.  Widths in twentieths of a pixel. *)

\* ctx.measureText(text).width at font size `size`: the backend's oracle.
MeasureText(text, size, a) == Len(text) * size * a

\* m.width + (p.type === 'delim' ? mid * 0.1 : mid * 0.25)
PartWidth(p, size, a) ==
    MeasureText(p.text, size, a) + (IF p.type = "delim" THEN 2 * size ELSE 5 * size)

RECURSIVE SumWidths(_, _, _, _)
SumWidths(ps, i, size, a) ==
    IF i > Len(ps) THEN 0 ELSE PartWidth(ps[i], size, a) + SumWidths(ps, i + 1, size, a)

\* wTotal of lines 177-181
WTotal(ps, size, a) == SumWidths(ps, 1, size, a)

\* wTotal <= maxWidth
FitsWidth(ps, size, a, W) == WTotal(ps, size, a) <= 20 * MaxWidth(W)

RECURSIVE Search(_, _, _, _, _, _)
\* The while loop of lines 174-183.
Search(low, high, best, ps, a, W) ==
    IF low > high THEN best
    ELSE LET mid == (low + high) \div 2
         IN  IF FitsWidth(ps, mid, a, W)
             THEN Search(mid + 1, high, mid, ps, a, W)
             ELSE Search(low, mid - 1, best, ps, a, W)

\* fontSize after line 183
FitFontSize(ps, contentH, a, W) ==
    Search(12, UpperSize(contentH), UpperSize(contentH), ps, a, W)

----------------------------------------------------------------------------
(* Drawing, lines 185-248: which fill calls are made *)

NumParts(ps) == {i \in DOMAIN ps : ps[i].type = "num"}

\* style === 'boxed' && p.type === 'num' && ms > 0
DrawsBox(style, p, n) == style = "boxed" /\ p.type = "num" /\ n > 0

\* The texts of the fillText calls of lines 223-232, in order.
LabelTexts(ps) ==
    [gi \in 1..Cardinality(NumParts(ps)) |-> IF gi <= 4 THEN Labels[gi] ELSE ""]

Drawing(o, ps, n) ==
    [boxes   |-> Cardinality({i \in DOMAIN ps : DrawsBox(o.style, ps[i], n)}),
     glyphs  |-> Len(ps),
     labels  |-> IF ShowUnitLabels(o.showLabels, n) THEN LabelTexts(ps) ELSE <<>>,
     overlay |-> IF q["overlay"] = {"1"} THEN 3 ELSE 0]

NoDrawing == [boxes |-> 0, glyphs |-> 0, labels |-> <<>>, overlay |-> 0]

----------------------------------------------------------------------------
(* The requests the model runs the handler on.  Each family varies the     *)
(* parameters of one concern and leaves the others at their defaults.      *)

Request(f) == [k \in Keys |-> IF k \in DOMAIN f THEN f[k] ELSE {}]

DefaultText == <<"0", "0", ":", "0", "0", ":", "0", "0", ":", "0", "0">>

\* Time resolution: every combination of end, end_local, tz, start, ttl_*.
ResolveScenarios ==
    {[q |-> Request([end |-> e, end_local |-> l, tz |-> z, start |-> s,
                     ttl_days |-> td, ttl_hours |-> th, ttl_seconds |-> ts,
                     debug |-> {"1"}]),
      clock |-> 5 * Hour, adv |-> 12] :
        e  \in {{}, {""}, {"garbage"}, {"2025-01-02T12:00:00Z"}},
        l  \in {{}, {"garbage"}, {"2025-09-01 00:00"}, {"2025-09-02"}},
        z  \in {{}, {""}, {"Mars/Phobos"}, {"Asia/Karachi"}},
        s  \in {{}, {"garbage"}, {"2025-01-01T00:00:00Z"}},
        td \in {{}, {<<>>}, {<<"0">>}, {<<"1">>}},
        th \in {{}, {<<"5">>}, {<<"1", "2">>}},
        ts \in {{}, {<<"a", "b", "c">>}}}

\* Remaining time: a fixed end and a clock before, at and after it.
Durations ==
    {0, 1, Sec, Sec + 1, 59 * Sec, Hour - 1,
     2 * Day + 3 * Hour + 4 * Mnt + 5 * Sec,
     30 * Day, 30 * Day + 10 * Hour, 31 * Day, 45 * Day + 1,
     365 * Day, 366 * Day, 400 * Day + 7 * Hour + Sec, 0 - 1, 0 - Day}

DurationScenarios ==
    {[q |-> Request([end |-> {"2027-01-01T00:00:00Z"}, padDays |-> pd]),
      clock |-> 730 * Day - d, adv |-> 12] :
        d \in Durations, pd \in {{}, {<<"1">>}, {<<"9">>}, {<<"x">>}}}

ExpiredTexts ==
    {{}, {<<"D", "O", "N", "E">>}, {<<":", "x", ":">>}, {<<"a", "a", "a">>},
     {<<"a", "-", "b", "-", "c", "-", "d", "-", "e">>},
     {Rep("W", 32 + MaxExtraChars)}}

\* Tokens and decorations: expired or not, style, labels, delimiter, text.
TokenScenarios ==
    {[q |-> Request([end |-> {"2027-01-01T00:00:00Z"}, style |-> st,
                     show_labels |-> sl, delim |-> dl, expiredText |-> et]),
      clock |-> c, adv |-> 12] :
        c  \in {730 * Day - MaxSkew, 730 * Day - 2 * Day},
        st \in {{}, {"boxed"}, {"BOXED"}},
        sl \in {{}, {"false"}, {"False"}},
        dl \in {{}, {<<>>}, {<<"-">>}, {<<"a", "a">>}, {<<":", "x", ":", ":">>}},
        et \in ExpiredTexts}

\* Font fit: canvas size, scale, text length and the backend's metrics.
FitScenarios ==
    {[q |-> Request([end |-> {"2027-01-01T00:00:00Z"}, w |-> w, h |-> h,
                     scale |-> sc, show_labels |-> sl, expiredText |-> et]),
      clock |-> c, adv |-> a] :
        c  \in {730 * Day, 730 * Day - 2 * Day},
        w  \in {{}, {<<"2", "0", "0">>}, {<<"4", "0", "0">>}, {<<"9", "9", "9", "9">>}},
        h  \in {{}, {<<"1">>}, {<<"4", "0", "0">>}},
        sc \in {{}, {<<"2">>}},
        sl \in {{}, {"false"}},
        et \in {{}, {<<"D", "O", "N", "E">>}, {Rep("W", 32 + MaxExtraChars)}},
        a  \in {9, 12, 20}}

\* The rest: colours, the overlay, debug output, no parameters at all.
OtherScenarios ==
    {[q |-> Request([bg |-> b, overlay |-> ov, debug |-> db]),
      clock |-> c, adv |-> 12] :
        b  \in {{}, {"#102030"}, {ArrayValue}},
        ov \in {{}, {"1"}},
        db \in {{}, {"1"}, {"0"}},
        c  \in {0, 5 * Hour}}

Scenarios == ResolveScenarios \cup DurationScenarios \cup TokenScenarios
             \cup FitScenarios \cup OtherScenarios

----------------------------------------------------------------------------
(* The handler, lines 60-268 *)

Init ==
    /\ \E sc \in Scenarios : q = sc.q /\ clock = sc.clock /\ adv = sc.adv
    /\ pc = "options"
    /\ opt = NoOptions
    /\ mode = ""
    /\ endUtc = Invalid
    /\ now = 0
    /\ ms = 0
    /\ groups = <<>>
    /\ parts = <<>>
    /\ layout = NoLayout
    /\ fontSize = 0
    /\ drawn = NoDrawing
    /\ res = NoResponse

\* Lines 62-79.
ReadOptions ==
    /\ pc = "options"
    /\ q["bg"] # {ArrayValue}
    /\ opt' = Options
    /\ pc' = "resolve"
    /\ UNCHANGED <<q, clock, adv, mode, endUtc, now, ms, groups, parts,
                   layout, fontSize, drawn, res>>

\* Line 69 on an array: q.bg.replace is not a function.
ReadOptionsThrows ==
    /\ pc = "options"
    /\ q["bg"] = {ArrayValue}
    /\ pc' = "catch"
    /\ UNCHANGED <<q, clock, adv, opt, mode, endUtc, now, ms, groups, parts,
                   layout, fontSize, drawn, res>>

\* Lines 82-108.
ComputeEnd ==
    /\ pc = "resolve"
    /\ mode' = SelectMode
    /\ IF SelectMode = "local" /\ TzThrows(ParsedLocal, Val("tz"))
       THEN pc' = "catch" /\ UNCHANGED endUtc
       ELSE pc' = "validate" /\ endUtc' = EndOf(SelectMode)
    /\ UNCHANGED <<q, clock, adv, opt, now, ms, groups, parts, layout,
                   fontSize, drawn, res>>

\* Variant of Validate: the return of line 112 is missing.
ValidateNoReturn ==
    /\ pc = "validate"
    /\ IF ~endUtc.valid
       THEN res' = Send(res, 400, "Invalid end time")
       ELSE UNCHANGED res
    /\ pc' = "now"
    /\ UNCHANGED <<q, clock, adv, opt, mode, endUtc, now, ms, groups, parts,
                   layout, fontSize, drawn>>

\* Lines 110-113.
Validate ==
    /\ pc = "validate"
    /\ IF ~endUtc.valid
       THEN res' = Send(res, 400, "Invalid end time") /\ pc' = "done"
       ELSE pc' = "now" /\ UNCHANGED res
    /\ UNCHANGED <<q, clock, adv, opt, mode, endUtc, now, ms, groups, parts,
                   layout, fontSize, drawn>>

\* Lines 115-117.
ComputeMs ==
    /\ pc = "now"
    /\ \E skew \in 0..MaxSkew :
          /\ now' = clock + skew
          /\ ms' = ClampMs(endUtc.t - (clock + skew))
    /\ pc' = "debug"
    /\ UNCHANGED <<q, clock, adv, opt, mode, endUtc, groups, parts, layout,
                   fontSize, drawn, res>>

\* Lines 126-136.
DebugJson ==
    /\ pc = "debug"
    /\ IF q["debug"] = {"1"}
       THEN /\ res' = Send(SetHeader(res, "Content-Type", "application/json"),
                           200, "json")
            /\ pc' = "done"
       ELSE pc' = "labels" /\ UNCHANGED res
    /\ UNCHANGED <<q, clock, adv, opt, mode, endUtc, now, ms, groups, parts,
                   layout, fontSize, drawn>>

\* Lines 139-146.
BuildLabels ==
    /\ pc = "labels"
    /\ groups' = Groups(ms, opt)
    /\ pc' = "canvas"
    /\ UNCHANGED <<q, clock, adv, opt, mode, endUtc, now, ms, parts, layout,
                   fontSize, drawn, res>>

\* Lines 149-159.
CreateCanvas ==
    /\ pc = "canvas"
    /\ layout' = Layout(opt, ms)
    /\ pc' = "fit"
    /\ UNCHANGED <<q, clock, adv, opt, mode, endUtc, now, ms, groups, parts,
                   fontSize, drawn, res>>

\* Line 151 when the canvas backend fails.
CreateCanvasThrows ==
    /\ pc = "canvas"
    /\ pc' = "catch"
    /\ UNCHANGED <<q, clock, adv, opt, mode, endUtc, now, ms, groups, parts,
                   layout, fontSize, drawn, res>>

\* Lines 162-183.
FitFont ==
    /\ pc = "fit"
    /\ parts' = Parts(groups, opt.delim)
    /\ fontSize' = FitFontSize(Parts(groups, opt.delim), layout.contentH, adv, layout.W)
    /\ pc' = "draw"
    /\ UNCHANGED <<q, clock, adv, opt, mode, endUtc, now, ms, groups, layout,
                   drawn, res>>

\* Lines 185-248.
Draw ==
    /\ pc = "draw"
    /\ drawn' = Drawing(opt, parts, ms)
    /\ pc' = "headers"
    /\ UNCHANGED <<q, clock, adv, opt, mode, endUtc, now, ms, groups, parts,
                   layout, fontSize, res>>

\* Lines 251-254.
SetHeaders ==
    /\ pc = "headers"
    /\ res' = [SetHeader(res, "Content-Type", "image/png")
                  EXCEPT !.headers = @ \cup CacheHeaders]
    /\ pc' = "encode"
    /\ UNCHANGED <<q, clock, adv, opt, mode, endUtc, now, ms, groups, parts,
                   layout, fontSize, drawn>>

\* Lines 256-257, the encode promise resolving.
Encode ==
    /\ pc = "encode"
    /\ res' = Send(res, 200, "png")
    /\ pc' = "done"
    /\ UNCHANGED <<q, clock, adv, opt, mode, endUtc, now, ms, groups, parts,
                   layout, fontSize, drawn>>

\* Line 256, the encode promise rejecting.
EncodeRejects ==
    /\ pc = "encode"
    /\ pc' = "catch"
    /\ UNCHANGED <<q, clock, adv, opt, mode, endUtc, now, ms, groups, parts,
                   layout, fontSize, drawn, res>>

\* Variant of Fallback: the catch block answers with an error page.
FallbackErrorPage ==
    /\ pc = "catch"
    /\ res' = Send(res, 500, "Internal Server Error")
    /\ pc' = "done"
    /\ UNCHANGED <<q, clock, adv, opt, mode, endUtc, now, ms, groups, parts,
                   layout, fontSize, drawn>>

\* Lines 258-263.
Fallback ==
    /\ pc = "catch"
    /\ res' = Send(SetHeader(res, "Content-Type", "image/png"), 200, "png1x1")
    /\ pc' = "done"
    /\ UNCHANGED <<q, clock, adv, opt, mode, endUtc, now, ms, groups, parts,
                   layout, fontSize, drawn>>

\* Lines 264-266: the 1x1 canvas cannot be made or encoded either.
FallbackFails ==
    /\ pc = "catch"
    /\ res' = Send(res, 500, "")
    /\ pc' = "done"
    /\ UNCHANGED <<q, clock, adv, opt, mode, endUtc, now, ms, groups, parts,
                   layout, fontSize, drawn>>

Next ==
    \/ ReadOptions
    \/ ReadOptionsThrows
    \/ ComputeEnd
    \/ Validate
    \/ ComputeMs
    \/ DebugJson
    \/ BuildLabels
    \/ CreateCanvas
    \/ CreateCanvasThrows
    \/ FitFont
    \/ Draw
    \/ SetHeaders
    \/ Encode
    \/ EncodeRejects
    \/ Fallback
    \/ FallbackFails

Spec == Init /\ [][Next]_vars

----------------------------------------------------------------------------
(* Properties *)

\* Lines 82-108 have run.
Resolved == mode # ""

\* Line 117 has run.
MsComputed == pc \notin {"options", "resolve", "validate", "now"} /\ endUtc.valid

\* Lines 162-183 have run.
Fitted == parts # <<>>

\* Lines 185-248 have run.
Painted == drawn.glyphs > 0

AnyTtlSupplied == Supplied("ttl_days") \/ Supplied("ttl_hours")
                  \/ Supplied("ttl_minutes") \/ Supplied("ttl_seconds")

\* The request carries the key with a value other than the empty string.
NonEmpty(k) == Supplied(k) /\ (IF k \in SeqKeys THEN Val(k) # <<>> ELSE Val(k) # "")

AnyTtlNonEmpty == NonEmpty("ttl_days") \/ NonEmpty("ttl_hours")
                  \/ NonEmpty("ttl_minutes") \/ NonEmpty("ttl_seconds")

\* The mode that the order end, end_local+tz, start+ttl, default selects
\* when Has(k) says which parameters count as given.
FirstApplicable(Has(_), anyTtl) ==
    IF Has("end") THEN "end"
    ELSE IF Has("end_local") /\ Has("tz") THEN "local"
    ELSE IF Has("start") /\ anyTtl THEN "startTtl"
    ELSE "default"

\* C1 as stated: the end instant comes from the first mode, in the order
\* end, end_local+tz, start+ttl, default, whose parameters the request
\* supplies; end supplied together with end_local and tz means only end is
\* used; end_local supplied without tz falls through to start+ttl or default.
C1_PrecedenceBySupplied ==
    Resolved =>
        /\ mode = FirstApplicable(Supplied, AnyTtlSupplied)
        /\ (Supplied("end") /\ Supplied("end_local") /\ Supplied("tz") => mode = "end")

\* C1 as amended: a parameter counts as supplied when it is present with a
\* non-empty value.  The end instant comes from the first mode, in the order
\* end, end_local+tz, start+ttl, default, whose parameters are all supplied in
\* that sense: with end supplied the result is the parse of end alone, whatever
\* end_local and tz are; with end_local supplied and tz not, the local mode is
\* skipped and the mode is start+ttl or default.
C1_PrecedenceByNonEmpty ==
    Resolved =>
        /\ mode = FirstApplicable(NonEmpty, AnyTtlNonEmpty)
        /\ (NonEmpty("end") =>
               /\ mode = "end"
               /\ endUtc = DayjsUtc(Val("end")))
        /\ (~NonEmpty("end") /\ NonEmpty("end_local") /\ ~NonEmpty("tz") =>
               mode \in {"startTtl", "default"})
        /\ (mode = "default" => endUtc = At(clock + 24 * Hour))

\* C1 witness: end, end_local and tz all given, and end alone was used.
C1_Witness ==
    /\ Resolved /\ pc = "validate"
    /\ NonEmpty("end") /\ NonEmpty("end_local") /\ NonEmpty("tz")
    /\ mode = "end" /\ endUtc = At(36 * Hour)

\* C2: once the end instant is valid and now has been read, remainingMs is
\* max(0, end - now): never negative, 0 whenever now >= end (now = end
\* included), and end - now whenever now < end.
C2_RemainingIsClampedDifference ==
    MsComputed =>
        /\ ms = Max(0, endUtc.t - now)
        /\ ms >= 0
        /\ (now >= endUtc.t => ms = 0)
        /\ (now < endUtc.t => ms = endUtc.t - now)

\* C2 witness: now was read equal to end, and remainingMs is 0.
C2_Witness ==
    /\ MsComputed /\ pc = "debug"
    /\ now = endUtc.t /\ ms = 0

\* C3 as stated: every response is a success status with a PNG body (the
\* rendered image or the 1x1 fallback), or the 'Invalid end time' validation
\* response; nothing else is ever sent.
C3_AlwaysImageOrValidation ==
    pc = "done" =>
        \/ res.status = 200 /\ res.body \in {"png", "png1x1"}
        \/ res.status = 400 /\ res.body = "Invalid end time"

\* C3 as amended: every response is a success status with a PNG body (the
\* rendered image, or the 1x1 fallback after a failure in parameter handling,
\* time resolution, drawing or encoding), with three exceptions: the 'Invalid
\* end time' validation response, the JSON body sent with success status when
\* debug=1 and the end instant is valid, and the empty response with status
\* 500 sent when the fallback image itself cannot be produced.
C3_ImageValidationDebugOrFallbackFailure ==
    pc = "done" =>
        \/ /\ res.status = 200 /\ res.body \in {"png", "png1x1"}
           /\ <<"Content-Type", "image/png">> \in res.headers
        \/ /\ res.status = 400 /\ res.body = "Invalid end time"
           /\ Resolved /\ ~endUtc.valid
        \/ /\ res.status = 200 /\ res.body = "json"
           /\ q["debug"] = {"1"} /\ endUtc.valid
        \/ /\ res.status = 500 /\ res.body = ""

\* C3 witness: the unknown zone made time resolution throw and the 1x1
\* fallback image was sent with success status.
C3_Witness ==
    /\ pc = "done" /\ mode = "local" /\ ~endUtc.valid
    /\ res.status = 200 /\ res.body = "png1x1"

\* The selected mode cannot resolve the end time to a valid instant.
Unresolvable ==
    \/ mode = "end" /\ ~DayjsUtc(Val("end")).valid
    \/ mode = "startTtl" /\ ~DayjsUtc(Val("start")).valid
    \/ mode = "local" /\ (~ParsedLocal.valid \/ Val("tz") \notin KnownZones)

\* C4: whenever the selected mode cannot resolve the end time (malformed end,
\* malformed start with ttl fields, malformed end_local or unknown zone with
\* tz), the response is the error status with 'Invalid end time', and neither
\* a countdown nor an image is produced.
C4_UnresolvableIsInvalidEndTime ==
    Resolved /\ Unresolvable /\ pc = "done" =>
        /\ res.status = 400 /\ res.body = "Invalid end time"
        /\ groups = <<>> /\ drawn = NoDrawing

\* The sizes of [12, upper bound] that fit the canvas.
FittingSizes ==
    {sz \in 12..UpperSize(layout.contentH) : FitsWidth(parts, sz, adv, layout.W)}

\* C5: the search ends with the largest size of [12, floor(0.9 * contentH)]
\* whose total measured width is at most floor(0.92 * W); the chosen size's
\* total width never exceeds that limit.
C5_LargestFittingSize ==
    Fitted =>
        /\ fontSize \in FittingSizes
        /\ \A sz \in FittingSizes : sz <= fontSize
        /\ WTotal(parts, fontSize, adv) <= 20 * MaxWidth(layout.W)

\* The canvas widths the chosen size is compared across.
ComparedWidths == {200, 300, 400, 600, 1200, 1600, 3200}

\* C6: with tokens, height, scale and metrics fixed, a wider canvas never
\* gets a smaller font size.
C6_WiderNeverSmaller ==
    Fitted =>
        \A w2 \in ComparedWidths :
            w2 >= layout.W =>
                FitFontSize(parts, layout.contentH, adv, w2) >= fontSize

\* C7 as stated: with end absent, end_local+tz not both supplied, start
\* supplied and at least one ttl field supplied whatever its value, the mode
\* is start+ttl.
C7_AnySuppliedTtlActivates ==
    Resolved /\ ~Supplied("end") /\ ~(Supplied("end_local") /\ Supplied("tz"))
        /\ Supplied("start") /\ AnyTtlSupplied
    => mode = "startTtl"

\* The number a ttl value stands for: its leading integer, 0 when it has none
\* or the field is unset.
TtlNumber(k) ==
    CASE q[k] = {<<"0">>} -> 0
      [] q[k] = {<<"1">>} -> 1
      [] q[k] = {<<"5">>} -> 5
      [] q[k] = {<<"1", "2">>} -> 12
      [] OTHER -> 0

\* C7 as amended: with end absent or empty, end_local+tz not both non-empty,
\* start non-empty and at least one ttl field supplied with a non-empty value
\* (whatever that value, "0" and non-numeric text included), the mode is
\* start+ttl, never the default, and end = start + days + hours + minutes +
\* seconds with every unset or non-numeric offset counted as 0.
C7_AnyNonEmptyTtlActivates ==
    Resolved /\ ~NonEmpty("end") /\ ~(NonEmpty("end_local") /\ NonEmpty("tz"))
        /\ NonEmpty("start")
        /\ AnyTtlNonEmpty
    => /\ mode = "startTtl"
       /\ endUtc = IF DayjsUtc(Val("start")).valid
                     THEN At(DayjsUtc(Val("start")).t
                             + TtlNumber("ttl_days") * Day
                             + TtlNumber("ttl_hours") * Hour
                             + TtlNumber("ttl_minutes") * Mnt
                             + TtlNumber("ttl_seconds") * Sec)
                     ELSE Invalid

\* C7 witness: start with ttl_days=0 alone selects start+ttl and ends at start.
C7_Witness ==
    /\ pc = "validate" /\ mode = "startTtl"
    /\ q["ttl_days"] = {<<"0">>} /\ q["ttl_hours"] = {} /\ q["ttl_seconds"] = {}
    /\ endUtc = At(0)

\* The number a digit group shows.
Shown(i) == ParseInt(groups[i]).n

\* C8: for remainingMs > 0 the four groups satisfy hours < 24, minutes < 60,
\* seconds < 60, days = floor(remainingMs / one day), and days, hours,
\* minutes and seconds add up to remainingMs rounded down to a whole second,
\* for durations of any length.
C8_GroupsDecomposeRemaining ==
    groups # <<>> /\ ms > 0 =>
        /\ Len(groups) = 4
        /\ Shown(2) < 24 /\ Shown(3) < 60 /\ Shown(4) < 60
        /\ Shown(1) = ms \div Day
        /\ Shown(1) * Day + Shown(2) * Hour + Shown(3) * Mnt + Shown(4) * Sec
             = (ms \div Sec) * Sec

\* The texts of the tokens, in order.
TokenTexts == [i \in DOMAIN parts |-> parts[i].text]

\* C9: when remainingMs = 0 the Number tokens are the pieces of expiredText
\* split on the delimiter, with one Delimiter token between consecutive
\* pieces and none leading or trailing, so that the token texts concatenated
\* give expiredText back; and neither unit labels nor boxes are drawn,
\* whatever show_labels and style are.
C9_ExpiredTokensAndNoDecorations ==
    /\ Fitted /\ ms = 0 =>
        /\ Len(parts) % 2 = 1
        /\ \A i \in DOMAIN parts :
              IF i % 2 = 1
              THEN /\ parts[i].type = "num"
                   /\ IndexOfFrom(parts[i].text, opt.delim, 1) = 0
              ELSE parts[i].type = "delim" /\ parts[i].text = opt.delim
        /\ Concat(TokenTexts) = opt.expiredText
        /\ Len(opt.expiredText) <= 32 /\ Len(opt.delim) \in 1..3
    /\ Painted /\ ms = 0 => drawn.labels = <<>> /\ drawn.boxes = 0

\* C9 witness: an expired countdown in boxed style with labels enabled was
\* painted from several pieces.
C9_Witness ==
    /\ Painted /\ ms = 0 /\ MsComputed
    /\ opt.style = "boxed" /\ opt.showLabels
    /\ Len(parts) = 9 /\ opt.delim = <<"-">>

\* C10: every invocation issues exactly one send/end: never two, none before
\* the handler is done, one once it is done, and the handler never stops
\* before it is done; on the success path the Content-Type and the
\* cache-disabling headers are set while nothing has been sent yet.
C10_ExactlyOneResponse ==
    /\ res.sends <= 1
    /\ (pc = "done") <=> (res.sends = 1)
    /\ pc # "done" => ENABLED Next
    /\ (pc = "encode" \/ res.body = "png") =>
          {<<"Content-Type", "image/png">>} \cup CacheHeaders \subseteq res.headers

\* C10 witness: the encode promise rejected after the headers were set, and
\* the fallback was the one response.
C10_Witness ==
    /\ pc = "done" /\ res.sends = 1 /\ Painted
    /\ res.body = "png1x1" /\ CacheHeaders \subseteq res.headers

=============================================================================
